---- MODULE Spec2Model ----
(***************************************************************************)
(* Model of Common::Utility::NT::Library (src/common/utility/nt.cpp): a    *)
(* view over a loaded PE image.  The accessors are translated statement by *)
(* statement; loops are one action per iteration.  Pointers are absolute   *)
(* addresses (m_Module + RVA), memory is a function from RVA to the value  *)
(* of the pointer-sized word stored there.                                 *)
(***************************************************************************)
EXTENDS Integers, Sequences, FiniteSets, TLC

(* ------------------------------ bounds --------------------------------- *)
MaxDesc == 2        \* import descriptors before the forced end sentinel
MaxThunks == 2      \* thunk pairs per descriptor before the forced terminator
MaxCallbacks == 4   \* TLS callback slots before the forced null slot
MaxSections == 4    \* largest NumberOfSections drawn
MaxRuns == 3        \* most runs of equal bytes in a backing file drawn

(* ------------------------- program constants --------------------------- *)
IMAGE_DOS_SIGNATURE == 23117      \* 0x5A4D
ORDINAL_MASK == 268435455         \* 0xFFFFFFF
MAX_ORDINAL == 65535              \* 0xFFFF
PtrSize == 8                      \* sizeof(std::uintptr_t), sizeof(IMAGE_THUNK_DATA)
SectionHeaderSize == 40           \* sizeof(IMAGE_SECTION_HEADER)
ImportDescriptorSize == 20        \* sizeof(IMAGE_IMPORT_DESCRIPTOR)
OptionalHeaderOffset == 24        \* offsetof(IMAGE_NT_HEADERS, OptionalHeader)
WordModulus == 65536              \* i is a uint16_t

(* --------------------------- input values ------------------------------ *)
ImageBase == 4194304              \* 0x400000, a non-null HMODULE
OtherBase == 8388608              \* 0x800000, handle of the target module
BadMagic == 17744                 \* 0x4550, a magic that is not "MZ"
AddrT == 9437200                  \* address of one export of the target module
AddrU == 9437264                  \* address of another export
NameHint == 65536                 \* thunk data: RVA of an IMAGE_IMPORT_BY_NAME
OrdFlagged == 268435463           \* thunk data: 0x10000007, ordinal 7 under flag bits
ImportRva == 16384                \* DataDirectory[IMPORT].VirtualAddress
OftBase == 20480                  \* RVA of the first original-thunk array
FtBase == 24576                   \* RVA of the first address-table array
ArrayStride == 256                \* distance between two descriptors' arrays
NameRvaA == 28672                 \* RVA of the string "aB"
NameRvaB == 28688                 \* RVA of the string "Ac"
TlsRva == 12288                   \* DataDirectory[TLS].VirtualAddress
CallbackArrayRva == 12352         \* RVA of the TLS callback array
CbA == 4198400                    \* a TLS callback
CbB == 4198464                    \* another TLS callback
LongRun == 16843010               \* 0x1010102 equal bytes: 255 * LongRun = 2^32 + 254

VARIABLES
  m_Module,          \* Library::m_Module, 0 is nullptr
  image,             \* the bytes mapped at m_Module, by field
  env,               \* the loader, the export resolver and the file system
  moduleName,        \* argument of GetIATEntry
  op,                \* the accessor that was called
  pc,                \* position in the running accessor
  ret,               \* its return value
  reads,             \* header fields the accessor has read
  targetFunction, importDescriptor, originalThunkData, thunkData,
  examined,          \* descriptors whose name GetIATEntry compared
  walked,            \* <<descriptor, original thunk, thunk>> pointers it paired
  ordLookups,        \* <<original thunk, ordinal>> passed to GetProcAddress
  section, i, headers,
  current, callbacks,
  checksum, pos

modVars == <<m_Module, image, env, moduleName, op>>
iatVars == <<targetFunction, importDescriptor, originalThunkData, thunkData,
             examined, walked, ordLookups>>
secVars == <<section, i, headers>>
tlsVars == <<current, callbacks>>
sumVars == <<checksum, pos>>
vars == <<modVars, pc, ret, reads, iatVars, secVars, tlsVars, sumVars>>

(* ----------------------------- the image ------------------------------- *)
\* A backing file is its bytes in order, written as runs <<byte, count>> of
\* count equal bytes.  NoFile is a backing file that cannot be opened.
NoFile == [exists |-> FALSE, runs |-> <<>>]

OftRva(d) == OftBase + ArrayStride * d
FtRva(d) == FtBase + ArrayStride * d

\* The string read at an RVA.  RVA 0 is the DOS header itself: 'M' 'Z' 0x90 0.
ImageStrings ==
  (NameRvaA :> <<97, 66>>) @@ (NameRvaB :> <<65, 99>>) @@ (0 :> <<77, 90, 144>>)

DefaultImage ==
  [e_magic |-> IMAGE_DOS_SIGNATURE, e_lfanew |-> 128, NumberOfSections |-> 0,
   SizeOfOptionalHeader |-> 240, tlsVirtualAddress |-> 0,
   AddressOfCallBacks |-> 0, importVirtualAddress |-> ImportRva,
   imports |-> [d \in 0..0 |-> [Name |-> 0, OriginalFirstThunk |-> 0, FirstThunk |-> 0]],
   strings |-> ImageStrings, mem |-> <<>>]

DefaultEnv == [otherModule |-> 0, byName |-> 0, ordAddr |-> 0, file |-> NoFile]

(* ----------------------------- Header view ----------------------------- *)
GetPtr == m_Module

IsValid == m_Module # 0 /\ image.e_magic = IMAGE_DOS_SIGNATURE

\* IsValid reads e_magic unless m_Module is null (short-circuit).
ValidReads == IF m_Module # 0 THEN {"e_magic"} ELSE {}

GetNTHeaders == IF ~IsValid THEN 0 ELSE GetPtr + image.e_lfanew

GetOptionalHeader == IF ~IsValid THEN 0 ELSE GetNTHeaders + OptionalHeaderOffset

Deref(p) == image.mem[p - m_Module]


(* ------------------------ Import Table Resolver ------------------------ *)
\* The IMAGE_IMPORT_DESCRIPTOR at pointer p of the import directory.
DescAt(p) ==
  image.imports[(p - GetPtr - image.importVirtualAddress) \div ImportDescriptorSize]

\* The null-terminated string at an RVA of the image.
StrAt(rva) == image.strings[rva]

\* tolower of the C locale on a character code.
ToLower(c) == IF c >= 65 /\ c <= 90 THEN c + 32 ELSE c

\* _stricmp: the sign of the first difference of the lower-cased strings.
RECURSIVE StrICmp(_, _)
StrICmp(a, b) ==
  IF a = <<>> /\ b = <<>> THEN 0
  ELSE IF a = <<>> THEN -1
  ELSE IF b = <<>> THEN 1
  ELSE IF ToLower(Head(a)) < ToLower(Head(b)) THEN -1
  ELSE IF ToLower(Head(a)) > ToLower(Head(b)) THEN 1
  ELSE StrICmp(Tail(a), Tail(b))

Mut_NameMatches(d) == ToLower(Head(StrAt(d.Name))) = ToLower(Head(moduleName))
\* !_stricmp(GetPtr() + importDescriptor->Name, moduleName.data())
NameMatches(d) == StrICmp(StrAt(d.Name), moduleName) = 0

Mut_AtEndSentinel(d) == d.Name = 0 /\ d.OriginalFirstThunk = 0 /\ d.FirstThunk = 0
\* the negated condition of while (importDescriptor->Name)
AtEndSentinel(d) == d.Name = 0

\* originalThunkData->u1.AddressOfData & 0xFFFFFFF
OrdinalNumber(addressOfData) == addressOfData % (ORDINAL_MASK + 1)

Mut_IsOrdinal(addressOfData) == OrdinalNumber(addressOfData) < MAX_ORDINAL
\* ordinalNumber <= 0xFFFF
IsOrdinal(addressOfData) == OrdinalNumber(addressOfData) <= MAX_ORDINAL

\* GetProcAddress(otherModule.m_Module, ordinal): the target module exports
\* the ordinals 7 and 0xFFFF, both at env.ordAddr.
GetProcAddressByOrdinal(ordinal) ==
  IF ordinal \in {7, MAX_ORDINAL} THEN env.ordAddr ELSE 0

Mut_SlotOf(td) == Deref(td)
\* reinterpret_cast<void**>(&thunkData->u1.Function)
SlotOf(td) == td

\* ++originalThunkData
NextOriginalThunk(p) == p + PtrSize

Mut_NextThunk(p) == p
\* ++thunkData
NextThunk(p) == p + PtrSize

Return(v) == pc' = "done" /\ ret' = v

\* GetIATEntry up to the first test of the descriptor loop.
IATEnter ==
  /\ pc = "iat_start"
  /\ IF ~IsValid \/ env.otherModule = 0 \/ env.byName = 0 \/ GetOptionalHeader = 0
       THEN /\ Return(0)
            /\ reads' = reads \cup ValidReads
            /\ UNCHANGED <<targetFunction, importDescriptor>>
       ELSE /\ targetFunction' = env.byName
            /\ importDescriptor' = GetPtr + image.importVirtualAddress
            /\ reads' = reads \cup {"e_magic", "e_lfanew", "DataDirectory"}
            /\ pc' = "iat_outer"
            /\ ret' = ret
  /\ UNCHANGED <<modVars, originalThunkData, thunkData, examined, walked,
                 ordLookups, secVars, tlsVars, sumVars>>

\* One test of while (importDescriptor->Name) and the name comparison.
IATOuter ==
  /\ pc = "iat_outer"
  /\ LET d == DescAt(importDescriptor) IN
       IF AtEndSentinel(d)
         THEN /\ Return(0)
              /\ UNCHANGED <<importDescriptor, originalThunkData, thunkData, examined>>
         ELSE /\ examined' = examined \cup {importDescriptor}
              /\ ret' = ret
              /\ IF NameMatches(d)
                   THEN /\ originalThunkData' = d.OriginalFirstThunk + GetPtr
                        /\ thunkData' = d.FirstThunk + GetPtr
                        /\ pc' = "iat_inner"
                        /\ UNCHANGED importDescriptor
                   ELSE /\ importDescriptor' = importDescriptor + ImportDescriptorSize
                        /\ pc' = "iat_outer"
                        /\ UNCHANGED <<originalThunkData, thunkData>>
  /\ UNCHANGED <<modVars, reads, targetFunction, walked, ordLookups,
                 secVars, tlsVars, sumVars>>

Mut_EndOfThunks ==
  /\ Return(0)
  /\ UNCHANGED importDescriptor
\* The thunk loop ended without a hit: the break is commented out, so the
\* descriptor loop goes on with ++importDescriptor.
EndOfThunks ==
  /\ importDescriptor' = importDescriptor + ImportDescriptorSize
  /\ pc' = "iat_outer"
  /\ ret' = ret

\* One test of while (originalThunkData->u1.AddressOfData) and its body.
IATInner ==
  /\ pc = "iat_inner"
  /\ LET addressOfData == Deref(originalThunkData)
         ordinalNumber == OrdinalNumber(addressOfData)
         advance == /\ originalThunkData' = NextOriginalThunk(originalThunkData)
                    /\ thunkData' = NextThunk(thunkData)
                    /\ pc' = "iat_inner"
                    /\ ret' = ret
                    /\ UNCHANGED importDescriptor
         found == /\ Return(SlotOf(thunkData))
                  /\ UNCHANGED <<importDescriptor, originalThunkData, thunkData>>
     IN
       IF addressOfData = 0
         THEN /\ EndOfThunks
              /\ UNCHANGED <<originalThunkData, thunkData, walked, ordLookups>>
         ELSE /\ walked' = walked \cup {<<importDescriptor, originalThunkData, thunkData>>}
              /\ IF Deref(thunkData) = targetFunction
                   THEN found /\ UNCHANGED ordLookups
                   ELSE IF IsOrdinal(addressOfData)
                     THEN /\ ordLookups' = ordLookups \cup {<<originalThunkData, ordinalNumber>>}
                          /\ IF GetProcAddressByOrdinal(ordinalNumber) = targetFunction
                               THEN found
                               ELSE advance
                     ELSE advance /\ UNCHANGED ordLookups
  /\ UNCHANGED <<modVars, reads, targetFunction, examined, secVars, tlsVars, sumVars>>


(* ---- the images GetIATEntry is run on ---- *)
Filler == [oft |-> NameHint, ft |-> AddrU]

\* A name import bound to AddrT, two ordinal imports, and a zero original
\* thunk whose address slot holds AddrT.
Specials ==
  { [oft |-> NameHint, ft |-> AddrT], [oft |-> OrdFlagged, ft |-> AddrU],
    [oft |-> MAX_ORDINAL, ft |-> AddrU], [oft |-> 0, ft |-> AddrT] }

\* Thunk pair arrays: fillers with at most one special pair.
ThunkArrays ==
  { [j \in 0..(MaxThunks - 1) |-> Filler] } \cup
  { [j \in 0..(MaxThunks - 1) |-> IF j = k THEN s ELSE Filler] :
      k \in 0..(MaxThunks - 1), s \in Specials }

\* What one descriptor can be: all zero, zero Name with non-zero thunk RVAs,
\* or named with a thunk array.
DescChoices ==
  { [Name |-> 0, used |-> FALSE, arr |-> [j \in 0..(MaxThunks - 1) |-> Filler]],
    [Name |-> 0, used |-> TRUE, arr |-> [j \in 0..(MaxThunks - 1) |-> Filler]] } \cup
  { [Name |-> n, used |-> TRUE, arr |-> a] : n \in {NameRvaA, NameRvaB}, a \in ThunkArrays }

ThunkWords ==
  { OftRva(d) + PtrSize * j : d \in 0..(MaxDesc - 1), j \in 0..MaxThunks } \cup
  { FtRva(d) + PtrSize * j : d \in 0..(MaxDesc - 1), j \in 0..MaxThunks }

\* The image laid out from the chosen descriptors; the descriptor array and
\* every thunk array end with a zero entry.
BuildImage(ds) ==
  [DefaultImage EXCEPT
     !.imports = [d \in 0..MaxDesc |->
        IF d < MaxDesc /\ ds[d].used
          THEN [Name |-> ds[d].Name, OriginalFirstThunk |-> OftRva(d), FirstThunk |-> FtRva(d)]
          ELSE [Name |-> 0, OriginalFirstThunk |-> 0, FirstThunk |-> 0]],
     !.mem = [w \in ThunkWords |->
        LET isFt == w >= FtBase
            off == IF isFt THEN w - FtBase ELSE w - OftBase
            d == off \div ArrayStride
            j == (off % ArrayStride) \div PtrSize
        IN IF j = MaxThunks THEN 0
           ELSE IF isFt THEN ds[d].arr[j].ft ELSE ds[d].arr[j].oft]]

\* The loader and export resolver: the target module is loaded or not; the
\* requested symbol resolves to AddrT, AddrU or nothing.
IATEnvs ==
  { DefaultEnv } \cup
  { [DefaultEnv EXCEPT !.otherModule = OtherBase, !.byName = n, !.ordAddr = o] :
      n \in {0, AddrT, AddrU}, o \in {AddrT, AddrU} }

InitLocals ==
  /\ reads = {}
  /\ targetFunction = 0 /\ importDescriptor = 0
  /\ originalThunkData = 0 /\ thunkData = 0
  /\ examined = {} /\ walked = {} /\ ordLookups = {}
  /\ section = 0 /\ i = 0 /\ headers = <<>>
  /\ current = 0 /\ callbacks = <<>>
  /\ checksum = <<0, 0>> /\ pos = 0

\* An invalid module: a null handle, or a mapping whose magic is not "MZ".
InvalidModule ==
  \/ m_Module = 0 /\ image = DefaultImage
  \/ m_Module = ImageBase /\ image = [DefaultImage EXCEPT !.e_magic = BadMagic]

(* ---- between two calls: Free, Load, and the next call ---- *)
\* The position at which a call of accessor o starts, and the value ret
\* holds before it returns.
StartPc(o) ==
  CASE o = "GetNTHeaders" -> "nt_start"
    [] o = "GetOptionalHeader" -> "opt_start"
    [] o = "GetSectionHeaders" -> "sec_start"
    [] o = "GetTlsCallbacks" -> "tls_start"
    [] o = "GetIATEntry" -> "iat_start"
    [] o = "GetChecksum" -> "sum_start"

RetInit(o) ==
  CASE o \in {"GetNTHeaders", "GetOptionalHeader", "GetIATEntry"} -> 0
    [] o \in {"GetSectionHeaders", "GetTlsCallbacks"} -> <<>>
    [] o = "GetChecksum" -> <<0, 0>>

\* No accessor is running: one is about to start, or has returned.
BetweenCalls == pc \in {StartPc(op), "done", "idle"}

\* The locals of a call that has returned are gone.
ResetLocals ==
  /\ reads' = {}
  /\ targetFunction' = 0 /\ importDescriptor' = 0
  /\ originalThunkData' = 0 /\ thunkData' = 0
  /\ examined' = {} /\ walked' = {} /\ ordLookups' = {}
  /\ section' = 0 /\ i' = 0 /\ headers' = <<>>
  /\ current' = 0 /\ callbacks' = <<>>
  /\ checksum' = <<0, 0>> /\ pos' = 0

\* Library::Free: FreeLibrary and m_Module = nullptr on a valid module,
\* nothing on an invalid one.
Free ==
  /\ BetweenCalls
  /\ m_Module' = IF IsValid THEN 0 ELSE m_Module
  /\ pc' = IF pc = StartPc(op) THEN pc ELSE "idle"
  /\ ResetLocals
  /\ UNCHANGED <<image, env, moduleName, op, ret>>

\* Library::Load(moduleName): LoadLibraryA maps the target module if it is
\* not loaded yet, or fails; the symbols it then resolves are drawn as in
\* Init.  The Library it returns is another object.
Load ==
  /\ BetweenCalls
  /\ env.otherModule = 0
  /\ \/ env' = env
     \/ \E n \in {0, AddrT, AddrU}, o \in {AddrT, AddrU} :
          env' = [env EXCEPT !.otherModule = OtherBase, !.byName = n, !.ordAddr = o]
  /\ pc' = IF pc = StartPc(op) THEN pc ELSE "idle"
  /\ ResetLocals
  /\ UNCHANGED <<m_Module, image, moduleName, op, ret>>

\* The accessor is called again on the same Library.
CallAgain ==
  /\ pc \in {"done", "idle"}
  /\ pc' = StartPc(op)
  /\ ret' = RetInit(op)
  /\ ResetLocals
  /\ UNCHANGED modVars

IATSteps == IATEnter \/ IATOuter \/ IATInner

NextIAT == IATSteps \/ Free \/ Load \/ CallAgain

InitIAT ==
  /\ pc = "iat_start"
  /\ op = "GetIATEntry" /\ ret = 0
  /\ moduleName = <<65, 98>>
  /\ InitLocals
  /\ \/ /\ InvalidModule
        /\ env \in IATEnvs
     \/ /\ m_Module = ImageBase
        /\ \E ds \in [0..(MaxDesc - 1) -> DescChoices] : image = BuildImage(ds)
        /\ env \in IATEnvs

SpecIAT == InitIAT /\ [][NextIAT]_vars


(* ---------------------------- Section Table ---------------------------- *)
Mut_FirstSection(ntHeaders) == ntHeaders + OptionalHeaderOffset
\* IMAGE_FIRST_SECTION(ntHeaders)
FirstSection(ntHeaders) ==
  ntHeaders + OptionalHeaderOffset + image.SizeOfOptionalHeader

\* ++section
NextSection(p) == p + SectionHeaderSize

\* What dereferencing a null header pointer can do: the access faults, or
\* the read yields whatever the build makes of it and the accessor returns
\* some result r.
NullHeaderDeref(results) ==
  /\ \/ pc' = "crashed" /\ ret' = ret
     \/ \E r \in results : Return(r)
  /\ reads' = reads \cup ValidReads \cup {"null"}

\* GetSectionHeaders up to the first test of the loop; GetNTHeaders is not
\* checked for nullptr.
SecEnter ==
  /\ pc = "sec_start"
  /\ IF GetNTHeaders = 0
       THEN /\ NullHeaderDeref({<<>>, <<OptionalHeaderOffset>>})
            /\ UNCHANGED secVars
       ELSE /\ section' = FirstSection(GetNTHeaders)
            /\ i' = 0
            /\ headers' = <<>>
            /\ reads' = reads \cup {"e_magic", "e_lfanew", "SizeOfOptionalHeader"}
            /\ pc' = "sec_loop"
            /\ ret' = ret
  /\ UNCHANGED <<modVars, iatVars, tlsVars, sumVars>>

\* One test of i < NumberOfSections and the loop body.
SecLoop ==
  /\ pc = "sec_loop"
  /\ reads' = reads \cup {"NumberOfSections"}
  /\ IF i < image.NumberOfSections
       THEN /\ headers' = IF section # 0 THEN Append(headers, section) ELSE headers
            /\ i' = (i + 1) % WordModulus
            /\ section' = NextSection(section)
            /\ pc' = "sec_loop"
            /\ ret' = ret
       ELSE /\ Return(headers)
            /\ UNCHANGED secVars
  /\ UNCHANGED <<modVars, iatVars, tlsVars, sumVars>>

SecSteps == SecEnter \/ SecLoop

NextSec == SecSteps \/ Free \/ Load \/ CallAgain

ValidHeaders ==
  { [DefaultImage EXCEPT !.e_lfanew = l, !.SizeOfOptionalHeader = z,
                         !.NumberOfSections = n] :
      l \in {64, 128, 248}, z \in {224, 240}, n \in 0..MaxSections }

InitSec ==
  /\ pc = "sec_start"
  /\ op = "GetSectionHeaders" /\ ret = <<>>
  /\ moduleName = <<>>
  /\ env = DefaultEnv
  /\ InitLocals
  /\ \/ InvalidModule
     \/ m_Module = ImageBase /\ image \in ValidHeaders

SpecSec == InitSec /\ [][NextSec]_vars

(* -------------------------- TLS Callback Table ------------------------- *)
Mut_Collected(cbs, p) == Append(cbs, p)
\* callbacks.push_back(*current)
Collected(cbs, p) == Append(cbs, Deref(p))

\* current + sizeof(std::uintptr_t)
NextCallback(p) == p + PtrSize

\* GetTlsCallbacks up to the first test of the loop; GetOptionalHeader is
\* not checked for nullptr.
TlsEnter ==
  /\ pc = "tls_start"
  /\ IF GetOptionalHeader = 0
       THEN /\ NullHeaderDeref({<<>>, <<CbA>>})
            /\ UNCHANGED tlsVars
       ELSE /\ reads' = reads \cup {"e_magic", "e_lfanew", "DataDirectory"}
            /\ callbacks' = <<>>
            /\ IF image.tlsVirtualAddress = 0
                 THEN /\ Return(<<>>)
                      /\ UNCHANGED current
                 ELSE /\ current' = image.AddressOfCallBacks
                      /\ pc' = "tls_loop"
                      /\ ret' = ret
  /\ UNCHANGED <<modVars, iatVars, secVars, sumVars>>

\* One test of *current != nullptr and the loop body.
TlsLoop ==
  /\ pc = "tls_loop"
  /\ IF Deref(current) # 0
       THEN /\ callbacks' = Collected(callbacks, current)
            /\ current' = NextCallback(current)
            /\ pc' = "tls_loop"
            /\ ret' = ret
       ELSE /\ Return(callbacks)
            /\ UNCHANGED tlsVars
  /\ UNCHANGED <<modVars, reads, iatVars, secVars, sumVars>>

TlsSteps == TlsEnter \/ TlsLoop

NextTls == TlsSteps \/ Free \/ Load \/ CallAgain

CallbackWords == { CallbackArrayRva + PtrSize * j : j \in 0..MaxCallbacks }

\* Images with a TLS directory: the callback array is any content that has
\* a null slot, so a null may be followed by further pointers.
TlsImages ==
  { [DefaultImage EXCEPT
       !.tlsVirtualAddress = va,
       !.AddressOfCallBacks = ImageBase + CallbackArrayRva,
       !.mem = [w \in CallbackWords |->
                  LET j == (w - CallbackArrayRva) \div PtrSize
                  IN IF j = MaxCallbacks THEN 0 ELSE a[j]]] :
      va \in {0, TlsRva}, a \in [0..(MaxCallbacks - 1) -> {0, CbA, CbB}] }

InitTls ==
  /\ pc = "tls_start"
  /\ op = "GetTlsCallbacks" /\ ret = <<>>
  /\ moduleName = <<>>
  /\ env = DefaultEnv
  /\ InitLocals
  /\ \/ InvalidModule
     \/ m_Module = ImageBase /\ image \in TlsImages

SpecTls == InitTls /\ [][NextTls]_vars

(* ------------------------------ Checksum ------------------------------- *)
\* file.get(byte): the byte as a char, which is signed on this platform.
CharOf(b) == IF b >= 128 THEN b - 256 ELSE b

Mut_CastU8(c) == c
\* static_cast<uint8_t>(byte)
CastU8(c) == (c + 256) % 256

\* The conversion of an int to uint32_t, as <<high, low>> 16-bit halves.
ToU32(x) == IF x >= 0 THEN <<x \div 65536, x % 65536>> ELSE <<65535, 65536 + x>>

\* uint32_t addition, wrapping at 2^32.
Add32(a, b) ==
  LET lo == a[2] + b[2]
      hi == a[1] + b[1] + (lo \div 65536)
  IN <<hi % 65536, lo % 65536>>

\* std::ifstream file(GetPath()): GetPath is "" for an invalid module.
FileOpens == IsValid /\ env.file.exists

SumEnter ==
  /\ pc = "sum_start"
  /\ reads' = reads \cup ValidReads
  /\ IF ~FileOpens
       THEN /\ Return(<<0, 0>>)
            /\ UNCHANGED sumVars
       ELSE /\ checksum' = <<0, 0>>
            /\ pos' = 0
            /\ pc' = "sum_loop"
            /\ ret' = ret
  /\ UNCHANGED <<modVars, iatVars, secVars, tlsVars>>

\* count executions of checksum += v, grouped by doubling: uint32_t addition
\* is associative, so sum + count * v is (sum + (count % 2) * v) plus
\* count \div 2 additions of v + v.
RECURSIVE AddTimes(_, _, _)
AddTimes(sum, v, count) ==
  IF count = 0 THEN sum
  ELSE AddTimes(IF count % 2 = 1 THEN Add32(sum, v) ELSE sum, Add32(v, v), count \div 2)

\* The iterations of the loop over the next run of the stream: file.get(byte)
\* and the loop body once for each of its equal bytes (one iteration when the
\* run is a single byte), or the failing file.get at the end of the file.
\* pos counts the runs consumed.
SumLoop ==
  /\ pc = "sum_loop"
  /\ IF pos < Len(env.file.runs)
       THEN /\ checksum' = AddTimes(checksum,
                                    ToU32(CastU8(CharOf(env.file.runs[pos + 1][1]))),
                                    env.file.runs[pos + 1][2])
            /\ pos' = pos + 1
            /\ pc' = "sum_loop"
            /\ ret' = ret
       ELSE /\ Return(checksum)
            /\ UNCHANGED sumVars
  /\ UNCHANGED <<modVars, reads, iatVars, secVars, tlsVars>>

SumSteps == SumEnter \/ SumLoop

NextSum == SumSteps \/ Free \/ Load \/ CallAgain

FileBytes == {0, 1, 128, 255}

\* Run lengths: a single byte, and a run long enough for the sum to pass 2^32.
RunLengths == {1, LongRun}

Files ==
  {NoFile} \cup
  { [exists |-> TRUE, runs |-> r] :
      r \in UNION { [1..n -> FileBytes \X RunLengths] : n \in 0..MaxRuns } }

InitSum ==
  /\ pc = "sum_start"
  /\ op = "GetChecksum" /\ ret = <<0, 0>>
  /\ moduleName = <<>>
  /\ InitLocals
  /\ \E f \in Files : env = [DefaultEnv EXCEPT !.file = f]
  /\ \/ InvalidModule
     \/ m_Module = ImageBase /\ image = DefaultImage

SpecSum == InitSum /\ [][NextSum]_vars

(* --------------------- GetNTHeaders / GetOptionalHeader ---------------- *)
CallGetNTHeaders ==
  /\ pc = "nt_start"
  /\ Return(GetNTHeaders)
  /\ reads' = reads \cup ValidReads \cup (IF IsValid THEN {"e_lfanew"} ELSE {})
  /\ UNCHANGED <<modVars, iatVars, secVars, tlsVars, sumVars>>

CallGetOptionalHeader ==
  /\ pc = "opt_start"
  /\ Return(GetOptionalHeader)
  /\ reads' = reads \cup ValidReads \cup (IF IsValid THEN {"e_lfanew"} ELSE {})
  /\ UNCHANGED <<modVars, iatVars, secVars, tlsVars, sumVars>>

HdrSteps == CallGetNTHeaders \/ CallGetOptionalHeader

NextHdr == HdrSteps \/ Free \/ Load \/ CallAgain

InitHdr ==
  /\ \/ pc = "nt_start" /\ op = "GetNTHeaders"
     \/ pc = "opt_start" /\ op = "GetOptionalHeader"
  /\ ret = 0
  /\ moduleName = <<>>
  /\ env = DefaultEnv
  /\ InitLocals
  /\ \/ InvalidModule
     \/ m_Module = ImageBase /\ image \in ValidHeaders

(* ------------------------- every accessor ------------------------------ *)
Init == InitHdr \/ InitSec \/ InitTls \/ InitIAT \/ InitSum

Next ==
  HdrSteps \/ SecSteps \/ TlsSteps \/ IATSteps \/ SumSteps \/ Free \/ Load \/ CallAgain

Spec == Init /\ [][Next]_vars


(* ======================================================================= *)
(*                     Properties of the accessors                         *)
(* ======================================================================= *)

(* ---- vocabulary, stated on the image and independent of the walk ---- *)
Descs == DOMAIN image.imports

\* The descriptors before the first one whose Name field is zero.
LiveDescs == { d \in Descs : \A e \in 0..d : image.imports[e].Name # 0 }

\* The first descriptor whose three fields are all zero.
FirstAllZero ==
  CHOOSE d \in Descs :
    /\ image.imports[d] = [Name |-> 0, OriginalFirstThunk |-> 0, FirstThunk |-> 0]
    /\ \A e \in 0..(d - 1) :
         image.imports[e] # [Name |-> 0, OriginalFirstThunk |-> 0, FirstThunk |-> 0]

DescPtr(d) == m_Module + image.importVirtualAddress + 20 * d

Lower(str) == [k \in DOMAIN str |-> IF str[k] \in 65..90 THEN str[k] + 32 ELSE str[k]]

\* Descriptor d names the requested module, letter case ignored.
Named(d) == Lower(image.strings[image.imports[d].Name]) = Lower(moduleName)

OftVal(d, j) == image.mem[image.imports[d].OriginalFirstThunk + 8 * j]
FtVal(d, j) == image.mem[image.imports[d].FirstThunk + 8 * j]
SlotAddr(d, j) == m_Module + image.imports[d].FirstThunk + 8 * j

\* Pair j of descriptor d lies before the first zero original-thunk entry.
Reachable(d, j) == \A k \in 0..j : OftVal(d, k) # 0

Low28(x) == x % 268435456

\* Pair j of descriptor d is bound to address a, by value or by ordinal.
Hit(d, j, a) ==
  \/ FtVal(d, j) = a
  \/ Low28(OftVal(d, j)) <= 65535 /\ GetProcAddressByOrdinal(Low28(OftVal(d, j))) = a

\* The pairs of descriptor d that the walk can reach and that are bound to a.
DescHits(d, a) == { j \in 0..(MaxThunks - 1) : Reachable(d, j) /\ Hit(d, j, a) }

Hits(a) == { <<d, j>> \in LiveDescs \X (0..(MaxThunks - 1)) : Named(d) /\ j \in DescHits(d, a) }

FirstHit(a) ==
  CHOOSE h \in Hits(a) :
    \A g \in Hits(a) : h[1] < g[1] \/ (h[1] = g[1] /\ h[2] <= g[2])

\* GetIATEntry has returned after passing its gates: this module is valid,
\* the target module is loaded and the symbol resolved.
Scanned ==
  /\ pc = "done" /\ op = "GetIATEntry"
  /\ IsValid /\ env.otherModule # 0 /\ env.byName # 0

(* ---- C1 ---- *)
\* C1: on a module whose base is null or whose magic is not the DOS
\* signature, every accessor (GetNTHeaders, GetOptionalHeader,
\* GetSectionHeaders, GetTlsCallbacks, GetIATEntry) returns its null/empty
\* sentinel and reads no header field other than the magic.
C1_InvalidReturnsSentinel ==
  (/\ ~IsValid
   /\ pc \in {"done", "crashed"}
   /\ op \in {"GetNTHeaders", "GetOptionalHeader", "GetSectionHeaders",
              "GetTlsCallbacks", "GetIATEntry"})
  => /\ pc = "done"
     /\ reads \subseteq {"e_magic"}
     /\ IF op \in {"GetSectionHeaders", "GetTlsCallbacks"} THEN ret = <<>> ELSE ret = 0

(* ---- C2 ---- *)
\* C2 as stated: whenever slot i of a descriptor named M holds the resolved
\* address A, GetIATEntry returns the address of slot i; and if no pair of a
\* descriptor named M is bound to A, it returns null.
C2_Original ==
  Scanned =>
    /\ \A d \in LiveDescs, j \in 0..(MaxThunks - 1) :
         (Named(d) /\ Reachable(d, j) /\ FtVal(d, j) = env.byName)
           => ret = SlotAddr(d, j)
    /\ Hits(env.byName) = {} => ret = 0

\* C2 amended: GetIATEntry returns the address of the first pair in scan
\* order (descriptors named M in table order, pairs in index order) that is
\* bound to A by value or by ordinal, so slot i when no earlier pair is
\* bound to A; and null when no pair is bound to A.
C2_FirstBoundSlot ==
  Scanned =>
    IF Hits(env.byName) = {}
      THEN ret = 0
      ELSE ret = SlotAddr(FirstHit(env.byName)[1], FirstHit(env.byName)[2])

\* A lookup that returned a slot of index >= 1 holding the resolved address.
C2_Witness ==
  /\ Scanned
  /\ \E d \in LiveDescs, j \in 1..(MaxThunks - 1) :
       /\ Named(d) /\ FtVal(d, j) = env.byName
       /\ ret = SlotAddr(d, j)

(* ---- C3 ---- *)
\* C3: for a walked pair whose address-table value is not the target, the
\* ordinal lookup is made exactly when the low 28 bits of the original-thunk
\* entry are <= 0xFFFF, and when that ordinal resolves to the target the
\* lookup has returned the paired address-table slot.
C3_OrdinalPath ==
  op = "GetIATEntry" =>
    \A w \in walked :
      LET data == image.mem[w[2] - m_Module]
      IN image.mem[w[3] - m_Module] # targetFunction =>
           /\ (\E l \in ordLookups : l[1] = w[2]) <=> (Low28(data) <= 65535)
           /\ (\A l \in ordLookups : l[1] = w[2] => l[2] = Low28(data))
           /\ (Low28(data) <= 65535
                 /\ GetProcAddressByOrdinal(Low28(data)) = targetFunction)
                => (pc = "done" /\ ret = w[3])

\* A lookup that succeeded through an ordinal: the returned slot does not
\* hold the target address.
C3_Witness ==
  /\ Scanned
  /\ ret # 0
  /\ image.mem[ret - m_Module] # targetFunction
  /\ ordLookups # {}

(* ---- C7 ---- *)
\* C7: a descriptor whose name matches does not end the scan: if the first
\* matching descriptor that has a pair bound to the target comes after other
\* matching descriptors, the returned slot is in that later descriptor; and
\* a lookup that returns null has examined every descriptor before the end
\* of the table.
C7_ScanContinues ==
  Scanned =>
    /\ \A d2 \in LiveDescs :
         (/\ Named(d2) /\ DescHits(d2, env.byName) # {}
          /\ \A d1 \in 0..(d2 - 1) : Named(d1) => DescHits(d1, env.byName) = {})
           => /\ ret # 0
              /\ \E j \in 0..(MaxThunks - 1) : ret = SlotAddr(d2, j)
    /\ ret = 0 => examined = { DescPtr(d) : d \in LiveDescs }

\* Two matching descriptors, the slot returned from the second.
C7_Witness ==
  /\ Scanned
  /\ \E d1, d2 \in LiveDescs :
       /\ d1 < d2 /\ Named(d1) /\ Named(d2)
       /\ \E j \in 0..(MaxThunks - 1) : ret = SlotAddr(d2, j)

(* ---- C8 ---- *)
\* C8 as stated: the scan examines every descriptor before the first
\* all-zero descriptor and none at or after it.
C8_Original ==
  Scanned => examined = { DescPtr(d) : d \in 0..(FirstAllZero - 1) }

\* C8 amended: the scan stops at the first descriptor whose Name field is
\* zero, or earlier when a slot is found: no descriptor at or after the
\* first zero-Name descriptor is examined; a lookup that returns null has
\* examined every descriptor before it; a lookup that returns a slot has
\* examined the descriptors up to the one holding the slot.
C8_StopsAtZeroName ==
  op = "GetIATEntry" =>
    /\ examined \subseteq { DescPtr(d) : d \in LiveDescs }
    /\ (Scanned /\ ret = 0) => examined = { DescPtr(d) : d \in LiveDescs }
    /\ (Scanned /\ ret # 0) =>
         \E d \in LiveDescs :
           /\ examined = { DescPtr(e) : e \in 0..d }
           /\ \E j \in 0..(MaxThunks - 1) : ret = SlotAddr(d, j)

\* A scan stopped by a descriptor with a zero Name and non-zero thunk RVAs.
C8_Witness ==
  /\ Scanned
  /\ \E k \in Descs :
       /\ k >= 1
       /\ image.imports[k].Name = 0
       /\ image.imports[k].OriginalFirstThunk # 0
       /\ examined = { DescPtr(e) : e \in 0..(k - 1) }
       /\ ret = 0

(* ---- C9 ---- *)
\* C9: a returned slot lies in the address table of a descriptor whose name
\* equals the requested module name, letter case ignored.
C9_SlotOfNamedDescriptor ==
  (pc = "done" /\ op = "GetIATEntry" /\ ret # 0) =>
    \E d \in Descs :
      /\ image.imports[d].Name # 0
      /\ Named(d)
      /\ \E j \in 0..(MaxThunks - 1) : ret = SlotAddr(d, j)

\* A slot was returned after a descriptor with another name, whose first
\* slot holds the target address, was passed over.
C9_Witness ==
  /\ Scanned
  /\ ret # 0
  /\ \E d \in LiveDescs :
       /\ ~Named(d)
       /\ DescPtr(d) \in examined
       /\ FtVal(d, 0) = targetFunction

(* ---- C10 ---- *)
\* C10: the two thunk arrays are walked in lock-step from index 0: every
\* pair examined has the same index in both arrays, all original-thunk
\* entries up to that index are non-zero, every smaller index was examined
\* too, and a returned slot is the address-table member of an examined pair.
C10_LockStep ==
  op = "GetIATEntry" =>
    /\ \A w \in walked :
         LET d == (w[1] - m_Module - image.importVirtualAddress) \div 20
             o == w[2] - m_Module - image.imports[d].OriginalFirstThunk
             t == w[3] - m_Module - image.imports[d].FirstThunk
         IN /\ o = t
            /\ o % 8 = 0
            /\ Reachable(d, o \div 8)
            /\ \A k \in 0..((o \div 8) - 1) :
                 <<w[1], w[2] - 8 * ((o \div 8) - k), w[3] - 8 * ((o \div 8) - k)>> \in walked
    /\ (pc = "done" /\ ret # 0) => \E w \in walked : ret = w[3]

\* A scan that went past a zero original-thunk entry whose address slot
\* holds the target, and returned a slot of index >= 1 elsewhere.
C10_Witness ==
  /\ Scanned
  /\ ret # 0
  /\ \E w \in walked : ret = w[3] /\ w[2] - m_Module - image.imports[
         (w[1] - m_Module - image.importVirtualAddress) \div 20].OriginalFirstThunk >= 8
  /\ \E d \in LiveDescs, j \in 0..(MaxThunks - 1) :
       /\ Named(d) /\ DescPtr(d) \in examined
       /\ OftVal(d, j) = 0 /\ FtVal(d, j) = targetFunction


(* ---- C4 ---- *)
CbVal(k) == image.mem[CallbackArrayRva + 8 * k]

\* The index of the first null slot of the callback array.
FirstNull ==
  CHOOSE k \in 0..MaxCallbacks : CbVal(k) = 0 /\ \A j \in 0..(k - 1) : CbVal(j) # 0

\* The loop of GetTlsCallbacks is not interrupted: a call that can take a
\* step takes it.  Nothing obliges the caller to call, Free or Load.
SpecTlsFair == SpecTls /\ WF_vars(TlsSteps)

C4_Result ==
  /\ (pc \in {"tls_loop", "crashed"} /\ op = "GetTlsCallbacks")
       => (IsValid <=> pc = "tls_loop")
  /\ (pc = "done" /\ op = "GetTlsCallbacks" /\ IsValid) =>
       IF image.tlsVirtualAddress = 0
         THEN ret = <<>>
         ELSE ret = [k \in 1..FirstNull |-> CbVal(k - 1)]

\* C4: on a valid image GetTlsCallbacks terminates: it does not fault, and
\* once in its loop it returns; with a non-zero TLS directory address it
\* returns exactly the pointers before the first null slot of the callback
\* array, in array order, and with a zero TLS directory address it returns
\* the empty sequence.
C4_TlsCallbacks == [] C4_Result /\ ((pc = "tls_loop") ~> (pc = "done"))

\* Two callbacks were returned from an array that holds a further pointer
\* after its first null slot.
C4_Witness ==
  /\ pc = "done" /\ op = "GetTlsCallbacks" /\ IsValid
  /\ image.tlsVirtualAddress # 0
  /\ Len(ret) >= 2
  /\ \E k \in 0..MaxCallbacks : k > FirstNull /\ CbVal(k) # 0

(* ---- C5 ---- *)
\* C5: on a valid image GetSectionHeaders returns exactly NumberOfSections
\* references, the j-th being the j-th 40-byte record after the optional
\* header, whose end is SizeOfOptionalHeader bytes after its start.
C5_SectionHeaders ==
  (pc = "done" /\ op = "GetSectionHeaders" /\ IsValid) =>
    /\ Len(ret) = image.NumberOfSections
    /\ \A j \in 1..Len(ret) :
         ret[j] = m_Module + image.e_lfanew + 24 + image.SizeOfOptionalHeader
                  + 40 * (j - 1)

\* An enumeration of at least two sections.
C5_Witness ==
  /\ pc = "done" /\ op = "GetSectionHeaders" /\ IsValid
  /\ image.NumberOfSections >= 2
  /\ Len(ret) >= 2

(* ---- C6 ---- *)
\* The sum of the bytes of a file is SumUpper * 65536 + SumLower: each run
\* <<b, n>> adds b * n = b * (n \div 65536) * 65536 + b * (n % 65536).
RECURSIVE SumUpper(_)
SumUpper(runs) ==
  IF runs = <<>> THEN 0
  ELSE Head(runs)[1] * (Head(runs)[2] \div 65536) + SumUpper(Tail(runs))

RECURSIVE SumLower(_)
SumLower(runs) ==
  IF runs = <<>> THEN 0
  ELSE Head(runs)[1] * (Head(runs)[2] % 65536) + SumLower(Tail(runs))

\* The file's bytes add up to 2^32 or more, so the sum is reduced.
SumWraps(runs) == SumUpper(runs) + (SumLower(runs) \div 65536) >= 65536

\* C6: GetChecksum returns the sum of the bytes of the backing file, each
\* as an unsigned 8-bit value, modulo 2^32 (given as 16-bit halves), and 0
\* when the file cannot be opened.
C6_Checksum ==
  (pc = "done" /\ op = "GetChecksum") =>
    IF IsValid /\ env.file.exists
      THEN /\ ret[1] = (SumUpper(env.file.runs) + (SumLower(env.file.runs) \div 65536)) % 65536
           /\ ret[2] = SumLower(env.file.runs) % 65536
      ELSE ret = <<0, 0>>

\* The checksum 382 of a file of LongRun bytes 255 and one byte 128: the
\* bytes are negative as chars and add up to 2^32 + 382.
C6_Witness ==
  /\ pc = "done" /\ op = "GetChecksum" /\ IsValid /\ env.file.exists
  /\ env.file.runs = << <<255, LongRun>>, <<128, 1>> >>
  /\ SumWraps(env.file.runs)
  /\ ret = <<0, 382>>

====
